---- MODULE Spec2Model ----
(***************************************************************************)
(* Model of configure_switch.py: a P4Runtime control-plane client that     *)
(* pushes a forwarding pipeline to a switch, resolves names of the P4Info  *)
(* schema to numeric ids and writes two table entries (a ternary match on  *)
(* the TCP SYN flag with priority 100, a match-all drop entry with         *)
(* priority 10).                                                           *)
(*                                                                         *)
(* Spec      is the script itself: the module-level sequence of lines      *)
(*           274-291, run once against a device, from the point where the  *)
(*           P4RuntimeClient of line 47 exists.                            *)
(* SpecCalls is a caller that holds a configured client and invokes        *)
(*           insert_syn_flag_entry and insert_default_drop_entry, more     *)
(*           than once, with arguments drawn from bounded sets.            *)
(* SpecResolve is a caller that invokes get_id on a loaded schema.         *)
(***************************************************************************)
EXTENDS Integers, Sequences, FiniteSets, TLC

VARIABLES
    p4info_raw,   \* content of output/spark.p4info: a schema, or Malformed
    p4info,       \* p4_client.p4info: Unset until line 66 assigns it
    pc,           \* position of the script / of the caller
    raised,       \* the exception that left the last function, or "none"
    requests,     \* the requests sent on the channel, each with its response
    configured,   \* device: a forwarding pipeline is committed
    entries,      \* device: the table entries it holds
    lastCall,     \* the function last invoked, with its arguments
    ret,          \* what that invocation returned (None for the inserts)
    calls         \* SpecCalls, SpecResolve: the caller's invocations so far

vars == <<p4info_raw, p4info, pc, raised, requests, configured, entries,
          lastCall, ret, calls>>

(***************************************************************************)
(* Bounds of the model.                                                    *)
(***************************************************************************)
MaxTables == 2
MaxFields == 1
MaxActions == 2
MaxCalls == 2

(***************************************************************************)
(* The names the script looks up (lines 132, 133, 137, 211, 212) and the   *)
(* other names a schema of the model may declare.                          *)
(***************************************************************************)
SynTableName == "MyIngress.syn_flag_table"
ForwardActionName == "MyIngress.forward_to_controller"
DropActionName == "MyIngress._drop"
FlagsFieldName == "hdr.tcp.flags"

TableNames == {SynTableName, "MyIngress.ipv4_lpm"}
ActionNames == {ForwardActionName, DropActionName}
FieldNames == {FlagsFieldName, "hdr.ipv4.dstAddr"}
TableIds == {1, 2}
ActionIds == {5, 6}
FieldIds == {10, 11}
FlagsBitWidths == {8, 9}
BitWidthsOf(name) == IF name = FlagsFieldName THEN FlagsBitWidths ELSE {32}

(***************************************************************************)
(* Schemas: P4Info documents with tables (each with its match fields) and  *)
(* actions.  Names are unique within the tables, within the actions and    *)
(* within one table's match fields, and so are the ids; a field name may   *)
(* be declared by several tables.  A list holds no name twice, so it is    *)
(* never longer than the set of names it draws from.                       *)
(***************************************************************************)
Range(s) == {s[i] : i \in DOMAIN s}

InjSeqs(S, n) ==
    UNION {{s \in [1..k -> S] : \A i, j \in 1..k : s[i] = s[j] => i = j}
           : k \in 0..n}

FieldLists ==
    UNION {{[i \in DOMAIN ns |->
                [name |-> ns[i], id |-> ids[i], bitwidth |-> bw[i]]]
            : ids \in {s \in InjSeqs(FieldIds, MaxFields) : Len(s) = Len(ns)},
              bw \in {b \in [DOMAIN ns -> FlagsBitWidths \cup {32}] :
                          \A i \in DOMAIN ns : b[i] \in BitWidthsOf(ns[i])}}
           : ns \in InjSeqs(FieldNames, MaxFields)}

TableLists ==
    UNION {{[i \in DOMAIN ns |->
                [name |-> ns[i], id |-> ids[i], match_fields |-> fs[i]]]
            : ids \in {s \in InjSeqs(TableIds, MaxTables) : Len(s) = Len(ns)},
              fs \in [DOMAIN ns -> FieldLists]}
           : ns \in InjSeqs(TableNames, MaxTables)}

ActionLists ==
    UNION {{[i \in DOMAIN ns |-> [name |-> ns[i], id |-> ids[i]]]
            : ids \in {s \in InjSeqs(ActionIds, MaxActions) : Len(s) = Len(ns)}}
           : ns \in InjSeqs(ActionNames, MaxActions)}

Schemas == [tables : TableLists, actions : ActionLists]

Malformed == [malformed |-> TRUE]
Unset == [unset |-> TRUE]


(***************************************************************************)
(* Values a Python call can produce: None, an id, an (id, bitwidth) tuple, *)
(* or an exception leaving the function.                                   *)
(***************************************************************************)
None == [tag |-> "None"]
IdValue(n) == [tag |-> "id", id |-> n]
FieldValue(n, w) == [tag |-> "field", id |-> n, bitwidth |-> w]
Raise(e) == [tag |-> "raise", exc |-> e]

(***************************************************************************)
(* get_id, lines 100-127.                                                  *)
(***************************************************************************)
RECURSIVE SearchEntities(_, _, _)
SearchEntities(ents, entity_name, i) ==
    IF i > Len(ents) THEN None
    ELSE IF entity_name = ents[i].name THEN IdValue(ents[i].id)
    ELSE SearchEntities(ents, entity_name, i + 1)

RECURSIVE SearchFields(_, _, _, _)
SearchFields(tables, entity_name, t, f) ==
    IF t > Len(tables) THEN Raise("UnboundLocalError")
    ELSE IF f > Len(tables[t].match_fields)
         THEN SearchFields(tables, entity_name, t + 1, 1)
    ELSE IF entity_name = tables[t].match_fields[f].name
         THEN FieldValue(tables[t].match_fields[f].id,
                         tables[t].match_fields[f].bitwidth)
    ELSE SearchFields(tables, entity_name, t, f + 1)

get_id(info, entity_type, entity_name) ==
    IF entity_type = "table" THEN SearchEntities(info.tables, entity_name, 1)
    ELSE IF entity_type = "action"
         THEN SearchEntities(info.actions, entity_name, 1)
    ELSE IF entity_type = "header_field"
         THEN SearchFields(info.tables, entity_name, 1, 1)
    ELSE None

(***************************************************************************)
(* int.to_bytes(length, byteorder="big") and its inverse.  to_bytes raises *)
(* OverflowError when the value does not fit into length bytes.            *)
(***************************************************************************)
RECURSIVE Pow256(_)
Pow256(n) == IF n = 0 THEN 1 ELSE 256 * Pow256(n - 1)

Fits(v, length) == v >= 0 /\ v < Pow256(length)

to_bytes(v, length) ==
    [i \in 1..length |-> (v \div Pow256(length - i)) % 256]

RECURSIVE from_bytes(_)
from_bytes(bs) ==
    IF Len(bs) = 0 THEN 0
    ELSE 256 * from_bytes(SubSeq(bs, 1, Len(bs) - 1)) + bs[Len(bs)]

(***************************************************************************)
(* Constants of the script.                                                *)
(***************************************************************************)
device_id == 0
election_id == <<1, 0>>
SynFlagArg == 2
SynMaskLiteral == 2
MatchBytes == 1
DropPriority == 10
\* Faulty variant of SynPriority: the priority of the default entry.
SynPriorityAsDrop == DropPriority
SynPriority == 100

(***************************************************************************)
(* A protobuf constructor treats a keyword argument of None as an unset    *)
(* field, which reads as the scalar default 0.                             *)
(***************************************************************************)
ScalarField(v) == IF v = None THEN 0 ELSE v.id

(***************************************************************************)
(* insert_syn_flag_entry, lines 147-191: the match field, the table entry, *)
(* the update and the request.                                             *)
(***************************************************************************)
\* Faulty variants of SynTernary, which the properties on the match must
\* tell apart from it: the argument used as the mask too; two bytes per
\* sequence instead of one.
SynTernaryMaskFromArg(syn_flag_value) ==
    [value |-> to_bytes(syn_flag_value, MatchBytes),
     mask |-> to_bytes(syn_flag_value, MatchBytes)]

SynTernaryWide(syn_flag_value) ==
    [value |-> to_bytes(syn_flag_value, MatchBytes + 1),
     mask |-> to_bytes(SynMaskLiteral, MatchBytes + 1)]

\* Lines 147-153.
SynTernary(syn_flag_value) ==
    [value |-> to_bytes(syn_flag_value, MatchBytes),
     mask |-> to_bytes(SynMaskLiteral, MatchBytes)]

SynMatchField(header_field_id, syn_flag_value) ==
    [field_id |-> header_field_id, ternary |-> SynTernary(syn_flag_value)]

SynTableEntry(table_id, header_field_id, action_id, syn_flag_value) ==
    [table_id |-> ScalarField(table_id),
     match |-> <<SynMatchField(header_field_id, syn_flag_value)>>,
     action |-> [action_id |-> ScalarField(action_id), params |-> <<>>],
     priority |-> SynPriority]

\* Faulty variant of DropTableEntry: the priority left unset.
DropTableEntryUnsetPriority(table_id, action_id) ==
    [table_id |-> ScalarField(table_id),
     match |-> <<>>,
     action |-> [action_id |-> ScalarField(action_id), params |-> <<>>],
     priority |-> 0]

\* insert_default_drop_entry, lines 225-233.
DropTableEntry(table_id, action_id) ==
    [table_id |-> ScalarField(table_id),
     match |-> <<>>,
     action |-> [action_id |-> ScalarField(action_id), params |-> <<>>],
     priority |-> DropPriority]

\* Faulty variant of Update: a MODIFY.
UpdateModify(table_entry) == [type |-> "MODIFY", entity |-> table_entry]

\* Lines 175-178 and 241-244.
Update(table_entry) == [type |-> "INSERT", entity |-> table_entry]

WriteRequest(update) ==
    [rpc |-> "Write", device_id |-> device_id, election_id |-> election_id,
     updates |-> <<update>>]

PipelineRequest(info) ==
    [rpc |-> "SetForwardingPipelineConfig", device_id |-> device_id,
     election_id |-> election_id, action |-> "VERIFY_AND_COMMIT",
     p4info |-> info]

(***************************************************************************)
(* What insert_syn_flag_entry does before it calls stub.Write, lines       *)
(* 136-191: the exception that leaves it, or the request it has built.     *)
(***************************************************************************)
SynPrepare(info, syn_flag_value) ==
    LET table_id == get_id(info, "table", SynTableName)
        field == get_id(info, "header_field", FlagsFieldName)
        action_id == get_id(info, "action", ForwardActionName)
    IN  IF field.tag = "raise" THEN field
        ELSE IF ~Fits(syn_flag_value, MatchBytes) THEN Raise("OverflowError")
        ELSE [tag |-> "request",
              request |-> WriteRequest(Update(
                  SynTableEntry(table_id, field.id, action_id,
                                syn_flag_value)))]

(***************************************************************************)
(* What insert_default_drop_entry does before stub.Write, lines 215-258.   *)
(***************************************************************************)
DropPrepare(info) ==
    LET table_id == get_id(info, "table", SynTableName)
        action_id == get_id(info, "action", DropActionName)
    IN  [tag |-> "request",
         request |-> WriteRequest(Update(DropTableEntry(table_id, action_id)))]

(***************************************************************************)
(* The calls on the stub.  A gRPC call with a status other than OK raises  *)
(* grpc.RpcError.  setup_p4_pipeline has no handler (line 91); the two     *)
(* insert functions print the error and re-raise it (lines 196-206 and     *)
(* 264-272).                                                               *)
(***************************************************************************)
\* Faulty variants of the three: the error is swallowed; a duplicate is
\* taken for a success.
SetupSwallows(resp) == "none"

SetupRaises(resp) == IF resp = "OK" THEN "none" ELSE "RpcError"

SynWriteHandlerSwallows(resp) == "none"

SynWriteHandlerIdempotent(resp) ==
    IF resp \in {"OK", "ALREADY_EXISTS"} THEN "none" ELSE "RpcError"

SynWriteHandler(resp) == IF resp = "OK" THEN "none" ELSE "RpcError"

DropWriteHandler(resp) == IF resp = "OK" THEN "none" ELSE "RpcError"

(***************************************************************************)
(* The module-level sequence, lines 274-291: an exception that leaves a    *)
(* function is not caught and ends the script.                             *)
(***************************************************************************)
AfterSetup(exc) == IF exc = "none" THEN "insert_syn" ELSE "error"
AfterSyn(exc) == IF exc = "none" THEN "insert_drop" ELSE "error"
AfterDrop(exc) == IF exc = "none" THEN "done" ELSE "error"

(***************************************************************************)
(* The device behind the channel.  It answers SetForwardingPipelineConfig  *)
(* by committing the configuration or rejecting it, and a Write by         *)
(* inserting the entries or rejecting the request; an INSERT of an entry   *)
(* it already holds (same table, match and priority) is rejected; any call *)
(* can fail in transport.  The device of the model may accept any INSERT   *)
(* of an entry it does not hold; one that validates more rejects more,     *)
(* which the script sees as the same grpc.RpcError.                        *)
(***************************************************************************)
PipelineResponses == {"OK", "INVALID_ARGUMENT", "UNAVAILABLE"}

EntryKey(e) ==
    [table_id |-> e.table_id, match |-> e.match, priority |-> e.priority]

DeviceHolds(es, e) == \E x \in es : EntryKey(x) = EntryKey(e)

WriteResponses(es, request) ==
    {"UNAVAILABLE"} \cup
    (IF \E i \in DOMAIN request.updates :
            request.updates[i].type # "INSERT"
     THEN {"UNIMPLEMENTED"}
     ELSE IF \E i \in DOMAIN request.updates :
                 DeviceHolds(es, request.updates[i].entity)
          THEN {"ALREADY_EXISTS"}
          ELSE {"OK"})

DeviceAfterWrite(es, request, resp) ==
    IF resp = "OK"
    THEN es \cup {request.updates[i].entity : i \in DOMAIN request.updates}
    ELSE es

(***************************************************************************)
(* The device's table lookup: a ternary match field matches a packet when  *)
(* the packet agrees with the value on the bits of the mask; an entry      *)
(* matches when all its match fields do; among the matching entries the    *)
(* one with the highest priority is selected.  The only match field of the *)
(* model is the flags byte of the packet.                                  *)
(***************************************************************************)
RECURSIVE BitAnd(_, _)
BitAnd(a, b) ==
    IF a = 0 \/ b = 0 THEN 0
    ELSE (a % 2) * (b % 2) + 2 * BitAnd(a \div 2, b \div 2)

FieldMatches(m, flags) ==
    LET value == from_bytes(m.ternary.value)
        mask == from_bytes(m.ternary.mask)
    IN  BitAnd(flags, mask) = BitAnd(value, mask)

EntryMatches(e, flags) ==
    \A i \in DOMAIN e.match : FieldMatches(e.match[i], flags)

Matching(es, flags) == {e \in es : EntryMatches(e, flags)}

Highest(es) == {e \in es : \A x \in es : x.priority <= e.priority}

Selected(es, flags) == Highest(Matching(es, flags))

(***************************************************************************)
(* The script.                                                             *)
(***************************************************************************)
Init ==
    /\ p4info_raw \in Schemas \cup {Malformed}
    /\ p4info = Unset
    /\ pc = "setup"
    /\ raised = "none"
    /\ requests = <<>>
    /\ configured = FALSE
    /\ entries = {}
    /\ lastCall = [fn |-> "none"]
    /\ ret = None
    /\ calls = 0

\* setup_p4_pipeline, lines 50-97, called from line 279.
SetupP4Pipeline ==
    /\ pc = "setup"
    /\ lastCall' = [fn |-> "setup_p4_pipeline"]
    /\ ret' = None
    /\ UNCHANGED calls
    /\ \/ /\ p4info_raw = Malformed          \* text_format.Parse raises
          /\ raised' = "ParseError"
          /\ pc' = AfterSetup("ParseError")
          /\ UNCHANGED <<p4info_raw, p4info, requests, configured, entries>>
       \/ /\ p4info_raw # Malformed
          /\ p4info' = p4info_raw
          /\ \E resp \in PipelineResponses :
                /\ requests' = Append(requests,
                      [request |-> PipelineRequest(p4info_raw), resp |-> resp])
                /\ configured' = (configured \/ resp = "OK")
                /\ entries' = IF resp = "OK" THEN {} ELSE entries
                /\ raised' = SetupRaises(resp)
                /\ pc' = AfterSetup(SetupRaises(resp))
          /\ UNCHANGED p4info_raw

\* The effect of insert_syn_flag_entry(p4_client, stub, syn_flag_value),
\* lines 130-206, on everything but pc and calls.
InsertSynFlagEntry(syn_flag_value) ==
    LET prep == SynPrepare(p4info, syn_flag_value)
    IN  /\ lastCall' = [fn |-> "insert_syn_flag_entry",
                        syn_flag_value |-> syn_flag_value]
        /\ ret' = None
        /\ \/ /\ prep.tag = "raise"
              /\ raised' = prep.exc
              /\ UNCHANGED <<requests, entries>>
           \/ /\ prep.tag = "request"
              /\ \E resp \in WriteResponses(entries, prep.request) :
                    /\ requests' = Append(requests,
                          [request |-> prep.request, resp |-> resp])
                    /\ entries' = DeviceAfterWrite(entries, prep.request, resp)
                    /\ raised' = SynWriteHandler(resp)
        /\ UNCHANGED <<p4info_raw, p4info, configured>>

\* The effect of insert_default_drop_entry(p4_client, stub), lines 209-272.
InsertDefaultDropEntry ==
    LET prep == DropPrepare(p4info)
    IN  /\ lastCall' = [fn |-> "insert_default_drop_entry"]
        /\ ret' = None
        /\ \E resp \in WriteResponses(entries, prep.request) :
              /\ requests' = Append(requests,
                    [request |-> prep.request, resp |-> resp])
              /\ entries' = DeviceAfterWrite(entries, prep.request, resp)
              /\ raised' = DropWriteHandler(resp)
        /\ UNCHANGED <<p4info_raw, p4info, configured>>

\* Line 284.
MainInsertSyn ==
    /\ pc = "insert_syn"
    /\ InsertSynFlagEntry(SynFlagArg)
    /\ UNCHANGED calls
    /\ pc' = AfterSyn(raised')

\* Line 291.
MainInsertDrop ==
    /\ pc = "insert_drop"
    /\ InsertDefaultDropEntry
    /\ UNCHANGED calls
    /\ pc' = AfterDrop(raised')

Next == SetupP4Pipeline \/ MainInsertSyn \/ MainInsertDrop

Spec == Init /\ [][Next]_vars

(***************************************************************************)
(* A caller of the functions: it holds the client and the stub that a      *)
(* successful setup_p4_pipeline left, invokes a function with arguments    *)
(* of its choice, and catches what the function raises.  SpecCalls invokes *)
(* the two insert functions, repeatedly, on a client whose schema declares *)
(* at most one table; SpecResolve invokes get_id once, on any schema.      *)
(***************************************************************************)
SynFlagValues == {0, 2, 255, 256}
EntityTypes == {"table", "action", "header_field", "counter"}
EntityNames == TableNames \cup ActionNames \cup FieldNames

CallSchemas == {s \in Schemas : Len(s.tables) <= 1}

AfterSetupOK(schemas) ==
    /\ p4info_raw \in schemas
    /\ p4info = p4info_raw
    /\ pc = "caller"
    /\ raised = "none"
    /\ requests = <<[request |-> PipelineRequest(p4info_raw), resp |-> "OK"]>>
    /\ configured = TRUE
    /\ entries = {}
    /\ lastCall = [fn |-> "setup_p4_pipeline"]
    /\ ret = None
    /\ calls = 0

InitCalls == AfterSetupOK(CallSchemas)

CallInsertSyn ==
    /\ pc = "caller"
    /\ calls < MaxCalls
    /\ calls' = calls + 1
    /\ \E v \in SynFlagValues : InsertSynFlagEntry(v)
    /\ UNCHANGED pc

CallInsertDrop ==
    /\ pc = "caller"
    /\ calls < MaxCalls
    /\ calls' = calls + 1
    /\ InsertDefaultDropEntry
    /\ UNCHANGED pc

NextCalls == CallInsertSyn \/ CallInsertDrop

SpecCalls == InitCalls /\ [][NextCalls]_vars

InitResolve == AfterSetupOK(Schemas)

CallGetId ==
    /\ pc = "caller"
    /\ calls = 0
    /\ calls' = calls + 1
    /\ \E entity_type \in EntityTypes, entity_name \in EntityNames :
          LET r == get_id(p4info, entity_type, entity_name)
          IN  /\ lastCall' = [fn |-> "get_id", entity_type |-> entity_type,
                              entity_name |-> entity_name]
              /\ ret' = IF r.tag = "raise" THEN None ELSE r
              /\ raised' = IF r.tag = "raise" THEN r.exc ELSE "none"
    /\ UNCHANGED <<p4info_raw, p4info, pc, requests, configured, entries>>

SpecResolve == InitResolve /\ [][CallGetId]_vars

(***************************************************************************)
(* Properties.                                                             *)
(***************************************************************************)
IsPipeline(r) == r.request.rpc = "SetForwardingPipelineConfig"
IsWrite(r) == r.request.rpc = "Write"
LastRequest == requests[Len(requests)]
EntryOf(r) == r.request.updates[1].entity

\* What a schema declares under a name.
TablesNamed(info, n) == {t \in Range(info.tables) : t.name = n}
ActionsNamed(info, n) == {a \in Range(info.actions) : a.name = n}
FieldsNamed(info, n) ==
    {f \in UNION {Range(t.match_fields) : t \in Range(info.tables)} :
        f.name = n}

\* The last call was insert_syn_flag_entry and it sent its request.
SynCallSent ==
    /\ lastCall.fn = "insert_syn_flag_entry"
    /\ raised \in {"none", "RpcError"}

\* C1: if the SetForwardingPipelineConfig request is rejected or fails, the
\* run is in its error state and the requests sent hold no Write at all:
\* neither entry is attempted afterwards.
C1_PipelineFailureStopsRun ==
    \A i \in DOMAIN requests :
        (IsPipeline(requests[i]) /\ requests[i].resp # "OK")
            => /\ pc = "error"
               /\ raised = "RpcError"
               /\ \A j \in DOMAIN requests : ~IsWrite(requests[j])

C1_Witness ==
    /\ Len(requests) = 1
    /\ IsPipeline(requests[1])
    /\ requests[1].resp = "INVALID_ARGUMENT"
    /\ pc = "error"

\* C2: get_id returns the id the schema records under the name when the
\* name is declared (for a match field, with its bit-width) and returns
\* None, without raising, when it is not: for tables, actions and match
\* fields.
C2_ResolverTotal ==
    (lastCall.fn = "get_id"
        /\ lastCall.entity_type \in {"table", "action", "header_field"})
    => LET n == lastCall.entity_name
           declared ==
              CASE lastCall.entity_type = "table" ->
                     {IdValue(t.id) : t \in TablesNamed(p4info, n)}
                [] lastCall.entity_type = "action" ->
                     {IdValue(a.id) : a \in ActionsNamed(p4info, n)}
                [] lastCall.entity_type = "header_field" ->
                     {FieldValue(f.id, f.bitwidth) :
                         f \in FieldsNamed(p4info, n)}
       IN  /\ raised = "none"
           /\ declared # {} => ret \in declared
           /\ declared = {} => ret = None

\* C3: no Write request is sent unless the schema declares every name the
\* install step resolves: the table and the action of its entry, and for
\* the SYN entry the flags field; the ids of the entry are the declared
\* ones.
C3_NoUnresolvedIdWritten ==
    \A i \in DOMAIN requests :
        IsWrite(requests[i]) =>
            LET e == EntryOf(requests[i])
                action_name == IF e.match = <<>> THEN DropActionName
                               ELSE ForwardActionName
            IN  /\ \E t \in TablesNamed(p4info, SynTableName) :
                      e.table_id = t.id
                /\ \E a \in ActionsNamed(p4info, action_name) :
                      e.action.action_id = a.id
                /\ \A k \in DOMAIN e.match :
                      \E f \in FieldsNamed(p4info, FlagsFieldName) :
                          e.match[k].field_id = f.id

\* C4: a failed Write is re-raised: the function leaves with RpcError, the
\* run is in its error state and the failed request is the last one sent;
\* so after a failed SYN write the default-drop write is never sent.
C4_WriteFailureReraised ==
    \A i \in DOMAIN requests :
        (IsWrite(requests[i]) /\ requests[i].resp # "OK")
            => /\ raised = "RpcError"
               /\ pc = "error"
               /\ i = Len(requests)

C4_Witness ==
    /\ Len(requests) = 2
    /\ IsWrite(requests[2])
    /\ requests[2].resp = "UNAVAILABLE"
    /\ EntryOf(requests[2]).priority = SynPriority
    /\ pc = "error"

\* C5: on a schema that declares the policy table with id T, the two
\* actions with ids A1 and A2 and the flags field with id F and bit-width
\* 8, the script's insert_syn_flag_entry(0x02) sends exactly one request
\* with exactly one INSERT update of {T, [F ternary [0x02]/[0x02]], A1 without
\* parameters, priority 100} and insert_default_drop_entry sends exactly
\* one request with exactly one INSERT update of {T, no match, A2,
\* priority 10}.
C5_EntriesAsSpecified ==
    p4info # Unset =>
    \A t \in TablesNamed(p4info, SynTableName),
       a1 \in ActionsNamed(p4info, ForwardActionName),
       a2 \in ActionsNamed(p4info, DropActionName),
       f \in FieldsNamed(p4info, FlagsFieldName) :
        (/\ f.bitwidth = 8
         /\ \A g \in FieldsNamed(p4info, FlagsFieldName) : g = f)
        => /\ pc \in {"setup", "insert_syn"} => Len(requests) <= 1
           /\ pc = "insert_drop" => Len(requests) = 2
           /\ pc = "done" => Len(requests) = 3
           /\ Len(requests) >= 2 =>
                 /\ IsWrite(requests[2])
                 /\ requests[2].request.updates =
                      <<[type |-> "INSERT",
                         entity |->
                           [table_id |-> t.id,
                            match |-> <<[field_id |-> f.id,
                                         ternary |-> [value |-> <<2>>,
                                                      mask |-> <<2>>]]>>,
                            action |-> [action_id |-> a1.id,
                                        params |-> <<>>],
                            priority |-> 100]]>>
           /\ Len(requests) >= 3 =>
                 /\ IsWrite(requests[3])
                 /\ requests[3].request.updates =
                      <<[type |-> "INSERT",
                         entity |->
                           [table_id |-> t.id,
                            match |-> <<>>,
                            action |-> [action_id |-> a2.id,
                                        params |-> <<>>],
                            priority |-> 10]]>>

C5_Witness ==
    /\ pc = "done"
    /\ Len(requests) = 3
    /\ TablesNamed(p4info, SynTableName) # {}
    /\ ActionsNamed(p4info, ForwardActionName) # {}
    /\ ActionsNamed(p4info, DropActionName) # {}
    /\ \E f \in FieldsNamed(p4info, FlagsFieldName) : f.bitwidth = 8
    /\ EntryOf(requests[2]).priority = 100
    /\ EntryOf(requests[3]).priority = 10

\* C8: once both entries are installed, on a device that selects the
\* matching entry of highest priority: for every flags byte with bit 0x02
\* set both entries match and the SYN entry (forward to controller,
\* priority 100 > 10) is the one selected; for every flags byte with bit
\* 0x02 clear only the default-drop entry matches, and it is selected.
FlagsBytes == 0..255

C8_SynEntryPreferred ==
    pc = "done" =>
        LET syn == EntryOf(requests[2])
            drop == EntryOf(requests[3])
        IN  /\ entries = {syn, drop}
            /\ syn.priority > drop.priority
            /\ \A a \in ActionsNamed(p4info, ForwardActionName) :
                  syn.action.action_id = a.id
            /\ \A a \in ActionsNamed(p4info, DropActionName) :
                  drop.action.action_id = a.id
            /\ \A flags \in FlagsBytes :
                  LET matching == Matching(entries, flags)
                  IN  IF (flags \div 2) % 2 = 1
                      THEN /\ matching = {syn, drop}
                           /\ Highest(matching) = {syn}
                      ELSE /\ matching = {drop}
                           /\ Highest(matching) = {drop}
            /\ Selected(entries, 2) = {syn}
            /\ Selected(entries, 16) = {drop}

C8_Witness ==
    /\ pc = "done"
    /\ Cardinality(entries) = 2
    /\ \E e \in entries : e.priority = 100 /\ EntryMatches(e, 18)
    /\ \E e \in entries : e.priority = 10 /\ EntryMatches(e, 18)
    /\ \E e \in entries : e.priority = 100 /\ ~EntryMatches(e, 16)

\* C10: the requests sent are a prefix of SetForwardingPipelineConfig,
\* Write(SYN entry), Write(default-drop entry); a step sends at most one
\* request and never removes or repeats one; nothing is sent after a
\* failed request; every update is an INSERT; the script is at its end
\* exactly when all three requests were acknowledged, and then it takes
\* no further step.
RequestShape(r) ==
    IF IsPipeline(r) THEN "SetForwardingPipelineConfig"
    ELSE IF EntryOf(r).match = <<>> THEN "Write default-drop"
    ELSE "Write SYN"

ScriptSequence ==
    <<"SetForwardingPipelineConfig", "Write SYN", "Write default-drop">>

C10_State ==
    /\ Len(requests) <= Len(ScriptSequence)
    /\ \A i \in DOMAIN requests :
          /\ RequestShape(requests[i]) = ScriptSequence[i]
          /\ requests[i].resp # "OK" => i = Len(requests) /\ pc = "error"
          /\ IsWrite(requests[i]) =>
                \A k \in DOMAIN requests[i].request.updates :
                    requests[i].request.updates[k].type = "INSERT"
    /\ pc = "done" <=>
          (Len(requests) = 3 /\ \A i \in 1..3 : requests[i].resp = "OK")
    /\ pc = "done" => ~ENABLED Next

C10_Step ==
    /\ Len(requests') <= Len(requests) + 1
    /\ SubSeq(requests', 1, Len(requests)) = requests
    /\ (requests # <<>> /\ LastRequest.resp # "OK") => requests' = requests

C10_FixedSequenceNoRetry == []C10_State /\ [][C10_Step]_vars

C10_Witness ==
    /\ pc = "done"
    /\ Len(requests) = 3
    /\ \A i \in 1..3 : requests[i].resp = "OK"

\* C6 as stated: for every argument of insert_syn_flag_entry, the mask of
\* the ternary match that is written is that argument.
C6_MaskIsArgument ==
    SynCallSent =>
        from_bytes(EntryOf(LastRequest).match[1].ternary.mask)
            = lastCall.syn_flag_value

\* C6 as amended: for every argument of insert_syn_flag_entry in 0..255,
\* the ternary match that is written uses the argument as its value and
\* the literal 0x02 as its mask; an argument outside 0..255 raises
\* OverflowError and nothing is written.
C6_ArgumentIsValueMaskIsLiteral ==
    /\ SynCallSent =>
          /\ lastCall.syn_flag_value \in 0..255
          /\ Len(EntryOf(LastRequest).match) = 1
          /\ from_bytes(EntryOf(LastRequest).match[1].ternary.value)
                = lastCall.syn_flag_value
          /\ from_bytes(EntryOf(LastRequest).match[1].ternary.mask) = 2
    /\ (lastCall.fn = "insert_syn_flag_entry"
           /\ lastCall.syn_flag_value \notin 0..255)
          => raised \in {"OverflowError", "UnboundLocalError"}

C6_Witness ==
    /\ SynCallSent
    /\ lastCall.syn_flag_value = 255
    /\ EntryOf(LastRequest).match[1].ternary = [value |-> <<255>>,
                                                 mask |-> <<2>>]

\* C7 as stated: for every declared bit-width of the resolved flags field,
\* value and mask of the match are byte sequences of equal length
\* ceil(bitwidth/8), and decoding them big-endian gives back the value and
\* the mask.
C7_LengthFromBitWidth ==
    SynCallSent =>
        \A f \in FieldsNamed(p4info, FlagsFieldName) :
            LET tern == EntryOf(LastRequest).match[1].ternary
            IN  /\ Len(tern.value) = (f.bitwidth + 7) \div 8
                /\ Len(tern.mask) = (f.bitwidth + 7) \div 8
                /\ from_bytes(tern.value) = lastCall.syn_flag_value
                /\ from_bytes(tern.mask) = SynMaskLiteral

\* C7 as amended: whatever bit-width the schema declares for the flags
\* field, value and mask of the match are byte sequences of length exactly
\* 1, each byte in 0..255, which is ceil(bitwidth/8) only for bit-widths of
\* at most 8; decoding them big-endian gives back the value and the mask.
C7_OneByteWhateverBitWidth ==
    SynCallSent =>
        \A f \in FieldsNamed(p4info, FlagsFieldName) :
            LET tern == EntryOf(LastRequest).match[1].ternary
            IN  /\ Len(tern.value) = 1
                /\ Len(tern.mask) = 1
                /\ tern.value[1] \in 0..255 /\ tern.mask[1] \in 0..255
                /\ (Len(tern.value) = (f.bitwidth + 7) \div 8)
                      <=> f.bitwidth <= 8
                /\ from_bytes(tern.value) = lastCall.syn_flag_value
                /\ from_bytes(tern.mask) = SynMaskLiteral

C7_Witness ==
    /\ SynCallSent
    /\ \E f \in FieldsNamed(p4info, FlagsFieldName) : f.bitwidth = 9
    /\ Len(EntryOf(LastRequest).match[1].ternary.value) = 1

\* C9: on a device that rejects an INSERT of an entry it holds, a call of
\* insert_syn_flag_entry whose entry the device already holds sends its
\* request, leaves with RpcError and leaves the device's entries as they
\* were; a call the device acknowledges, as the first one on an empty
\* table, leaves without an exception and with the entry installed.
HoldsSynEntry(es, v) ==
    \E x \in es : /\ x.priority = SynPriority
                  /\ x.match # <<>>
                  /\ x.match[1].ternary.value = <<v>>

C9_Step ==
    (calls' = calls + 1 /\ lastCall'.fn = "insert_syn_flag_entry") =>
        /\ HoldsSynEntry(entries, lastCall'.syn_flag_value) =>
              /\ Len(requests') = Len(requests) + 1
              /\ requests'[Len(requests')].resp # "OK"
              /\ raised' = "RpcError"
              /\ entries' = entries
        /\ (Len(requests') = Len(requests) + 1
               /\ requests'[Len(requests')].resp = "OK") =>
              /\ raised' = "none"
              /\ ~HoldsSynEntry(entries, lastCall'.syn_flag_value)
              /\ entries' = entries \cup {EntryOf(requests'[Len(requests')])}
              /\ HoldsSynEntry(entries', lastCall'.syn_flag_value)
        /\ raised' # "none" => entries' = entries

C9_DuplicateInsertSurfaces == [][C9_Step]_vars

C9_Witness ==
    /\ Len(requests) = 3
    /\ requests[2].resp = "OK"
    /\ requests[3].resp = "ALREADY_EXISTS"
    /\ requests[3].request = requests[2].request
    /\ EntryOf(requests[2]).priority = SynPriority
    /\ raised = "RpcError"
    /\ entries = {EntryOf(requests[2])}

====
